---- MODULE Spec2Model ----
(***************************************************************************)
(* Verification model of the barista-dex keeper and router oracle layer.   *)
(*                                                                         *)
(*   - the liquidation scheduler of keeper/src/main.rs                     *)
(*     (run_liquidation_keeper, process_liquidations, execute_liquidation) *)
(*   - the HealthQueue it drives (keeper/src/priority_queue.rs is not part *)
(*     of the available sources: the queue is modelled from its            *)
(*     specification, section 4.3)                                         *)
(*   - the oracle adapters of programs/router/src/oracle (pyth.rs,         *)
(*     custom.rs)                                                          *)
(*   - the oracle crank service of keeper/src/main.rs (run_oracle_command) *)
(***************************************************************************)
EXTENDS Integers, Sequences, FiniteSets, TLC

VARIABLES
    queue,          \* HealthQueue: sequence of UserHealth records
    last_op,        \* the last HealthQueue operation applied through the queue's API
    config,         \* keeper Config: liquidation_threshold, preliq_buffer, max_liquidations_per_batch
    executor,       \* "stub": execute_liquidation as written; "submitter": the Transaction Submitter contract
    ledger,         \* portfolios for which the ledger has accepted a liquidation
    pc,             \* position of the keeper loop: "idle", "loop", "returned"
    liquidatable,   \* process_liquidations: the snapshot returned by get_liquidatable
    batch_size,     \* process_liquidations: batch_size
    idx,            \* process_liquidations: entries of the batch already iterated
    dispatched,     \* the dispatches made in the current tick, in order
    tick_queue,     \* the queue as it was when the current tick started
    account,        \* the oracle account handed to an adapter: owner and raw data
    adapters,       \* the configured PythAdapter and CustomAdapter
    overflow_checks,\* build profile: TRUE when integer overflow panics, FALSE when it wraps
    call,           \* the last adapter call and what it returned
    now,            \* the cluster's current Unix time (what the Clock sysvar holds)
    crank           \* the oracle crank service: position, fetched price, oracle price, log

sched_vars == <<config, executor, ledger, pc, liquidatable, batch_size, idx, dispatched, tick_queue>>
oracle_vars == <<account, adapters, overflow_checks, call, now>>
vars == <<queue, last_op, sched_vars, oracle_vars, crank>>

----------------------------------------------------------------------------
(* Bounds of the model *)

NumUsers == 3
MaxBatch == 2

Users == 1..NumUsers
Healths == {-10, -3, 0, 1, 5}
Thresholds == {0, 2}
Buffers == {1, 2}
BatchSizes == 0..MaxBatch

Min(a, b) == IF a < b THEN a ELSE b

Range(s) == {s[i] : i \in 1..Len(s)}

----------------------------------------------------------------------------
(* UserHealth and HealthQueue *)

Portfolio(u) == NumUsers + u

UserHealth(u, h) == [user |-> u, portfolio |-> Portfolio(u), health |-> h]

None == [user |-> 0, portfolio |-> 0, health |-> 0]

HealthQueue_new == <<>>

\* faulty variant: the records queued behind the user's are dropped with it
remove_truncating(q, user) ==
    IF \E i \in 1..Len(q) : q[i].user = user
    THEN SubSeq(q, 1, (CHOOSE i \in 1..Len(q) : q[i].user = user) - 1)
    ELSE q

remove(q, user) == SelectSeq(q, LAMBDA r : r.user # user)

\* position after the last record whose health is not above h
InsertAt(q, h) == Cardinality({i \in 1..Len(q) : q[i].health <= h})

\* faulty variant: the record is added without dropping the user's previous record
push_or_update_duplicating(q, rec) ==
    LET k == InsertAt(q, rec.health)
    IN  SubSeq(q, 1, k) \o <<rec>> \o SubSeq(q, k + 1, Len(q))

\* faulty variant: an update overwrites the user's record where it stands
push_or_update_in_place(q, rec) ==
    IF \E i \in 1..Len(q) : q[i].user = rec.user
    THEN [i \in 1..Len(q) |-> IF q[i].user = rec.user THEN rec ELSE q[i]]
    ELSE push_or_update_duplicating(q, rec)

push_or_update(q, rec) ==
    LET rest == remove(q, rec.user)
        k    == InsertAt(rest, rec.health)
    IN  SubSeq(rest, 1, k) \o <<rec>> \o SubSeq(rest, k + 1, Len(rest))

peek(q) == IF q = <<>> THEN None ELSE Head(q)

\* faulty variant: the threshold itself counts as liquidatable
get_liquidatable_inclusive(q, threshold) == SelectSeq(q, LAMBDA r : r.health <= threshold)

get_liquidatable(q, threshold) == SelectSeq(q, LAMBDA r : r.health < threshold)

len(q) == Len(q)

is_empty(q) == q = <<>>

----------------------------------------------------------------------------
(* The queue's API, applied by any client *)

NoOp == [op |-> "none", user |-> 0, health |-> 0, before |-> <<>>]

QueuePush(u, h) ==
    /\ pc = "idle"
    /\ queue' = push_or_update(queue, UserHealth(u, h))
    /\ last_op' = [op |-> "push", user |-> u, health |-> h, before |-> queue]
    /\ UNCHANGED <<sched_vars, oracle_vars, crank>>

QueueRemove(u) ==
    /\ pc = "idle"
    /\ queue' = remove(queue, u)
    /\ last_op' = [op |-> "remove", user |-> u, health |-> 0, before |-> queue]
    /\ UNCHANGED <<sched_vars, oracle_vars, crank>>

----------------------------------------------------------------------------
(* The liquidation scheduler *)

\* main.rs:154-177: the stub builds and submits nothing and returns Ok
execute_liquidation(led, portfolio, preliq) ==
    [result |-> "Ok", ledger |-> led]

\* Transaction Submitter contract: success means the action is durably recorded
submit(led, portfolio, preliq) ==
    { [result |-> "Ok", ledger |-> led \cup {portfolio}],
      [result |-> "Err", ledger |-> led] }

Outcomes(led, portfolio, preliq) ==
    IF executor = "stub"
    THEN {execute_liquidation(led, portfolio, preliq)}
    ELSE submit(led, portfolio, preliq)

\* faulty variant: the batch limit is ignored
BatchSize_unbounded(max_per_batch, count) == count

\* main.rs:114
BatchSize(max_per_batch, count) == Min(max_per_batch, count)

\* main.rs:116: liquidatable.iter().take(batch_size)
Batch(liq, n) == SubSeq(liq, 1, Min(n, Len(liq)))

\* faulty variant: health 0 counted as still solvent
is_preliq_inclusive(health, preliq_buffer) == health >= 0 /\ health < preliq_buffer

\* main.rs:124
is_preliq(health, preliq_buffer) == health > 0 /\ health < preliq_buffer

\* faulty variant: a failed dispatch is propagated out of process_liquidations
after_dispatch_propagate(result) == IF result = "Err" THEN "returned" ELSE "loop"

\* main.rs:134-147: both arms of the match fall through to the next iteration
after_dispatch(result) == "loop"

\* the risk engine's feed between ticks (main.rs:202-229 pushes one record)
update_health_queue(u, h) ==
    /\ pc = "idle"
    /\ queue' = push_or_update(queue, UserHealth(u, h))
    /\ UNCHANGED <<last_op, sched_vars, oracle_vars, crank>>

\* interval.tick() and process_liquidations up to the loop (main.rs:78-114)
process_liquidations ==
    /\ pc = "idle"
    /\ LET liq == get_liquidatable(queue, config.liquidation_threshold) IN
        /\ liquidatable' = liq
        /\ tick_queue' = queue
        /\ dispatched' = <<>>
        /\ idx' = 0
        /\ IF is_empty(liq)
           THEN /\ batch_size' = 0
                /\ pc' = "returned"
           ELSE /\ batch_size' = BatchSize(config.max_liquidations_per_batch, Len(liq))
                /\ pc' = "loop"
    /\ UNCHANGED <<queue, last_op, config, executor, ledger, oracle_vars, crank>>

\* one iteration of the loop (main.rs:116-148)
liquidate_entry ==
    /\ pc = "loop"
    /\ idx < Len(Batch(liquidatable, batch_size))
    /\ LET user_health == Batch(liquidatable, batch_size)[idx + 1]
           preliq      == is_preliq(user_health.health, config.preliq_buffer)
       IN  \E out \in Outcomes(ledger, user_health.portfolio, preliq) :
            /\ dispatched' = Append(dispatched,
                    [user |-> user_health.user, portfolio |-> user_health.portfolio,
                     health |-> user_health.health, is_preliq |-> preliq,
                     result |-> out.result])
            /\ ledger' = out.ledger
            /\ queue' = IF out.result = "Ok" THEN remove(queue, user_health.user) ELSE queue
            /\ pc' = after_dispatch(out.result)
    /\ idx' = idx + 1
    /\ UNCHANGED <<last_op, config, executor, liquidatable, batch_size, tick_queue, oracle_vars, crank>>

\* the loop is exhausted: process_liquidations returns Ok(()) (main.rs:148-150)
process_liquidations_return ==
    /\ pc = "loop"
    /\ idx = Len(Batch(liquidatable, batch_size))
    /\ pc' = "returned"
    /\ UNCHANGED <<queue, last_op, config, executor, ledger, liquidatable, batch_size, idx,
                   dispatched, tick_queue, oracle_vars, crank>>

\* the queue status is logged and the keeper waits for the next tick (main.rs:85-93)
log_queue_status ==
    /\ pc = "returned"
    /\ pc' = "idle"
    /\ liquidatable' = <<>>
    /\ batch_size' = 0
    /\ idx' = 0
    /\ dispatched' = <<>>
    /\ tick_queue' = <<>>
    /\ UNCHANGED <<queue, last_op, config, executor, ledger, oracle_vars, crank>>

----------------------------------------------------------------------------
(* Machine integers.  TLC computes on 32-bit integers, so the 8-byte integers of
   the account layouts are modelled on I64Bytes bytes and the 4-byte ones on
   I32Bytes bytes.  Every operation keeps its behaviour at the modelled width:
   little-endian decoding, two's-complement casts, saturation, overflow. *)

I64Bytes == 3
I32Bytes == 1

I64_MOD == 256^I64Bytes
I64_MAX == (I64_MOD \div 2) - 1
I64_MIN == -(I64_MOD \div 2)
U64_MAX == I64_MOD - 1
I32_MOD == 256^I32Bytes
I32_MAX == (I32_MOD \div 2) - 1
I32_MIN == -(I32_MOD \div 2)

Abs(x) == IF x < 0 THEN -x ELSE x

\* x as i64, x as i32, x as u32: the value modulo the width, two's complement
as_i64(x) == LET m == x % I64_MOD IN IF m > I64_MAX THEN m - I64_MOD ELSE m
as_i32(x) == LET m == x % I32_MOD IN IF m > I32_MAX THEN m - I32_MOD ELSE m
as_u32(x) == x % I32_MOD

RECURSIVE LeValue(_)
LeValue(bytes) == IF bytes = <<>> THEN 0 ELSE Head(bytes) + 256 * LeValue(Tail(bytes))

\* faulty variant: the bytes are taken most significant first
RECURSIVE BeValue(_)
BeValue(bytes) ==
    IF bytes = <<>> THEN 0
    ELSE Head(bytes) * 256^(Len(bytes) - 1) + BeValue(Tail(bytes))

i64_from_be_bytes(bytes) == as_i64(BeValue(bytes))

i64_from_le_bytes(bytes) == as_i64(LeValue(bytes))
u64_from_le_bytes(bytes) == LeValue(bytes)
i32_from_le_bytes(bytes) == as_i32(LeValue(bytes))
u32_from_le_bytes(bytes) == LeValue(bytes)

\* the little-endian bytes of x on n bytes, as a test fixture writes them
to_le_bytes(x, n) == [i \in 1..n |-> ((x % (256^n)) \div (256^(i - 1))) % 256]

\* the outcome of an operation that can abort
Value(v) == [panic |-> FALSE, value |-> v]
Panic == [panic |-> TRUE, value |-> 0]

Overflow(wrapped, checks) == IF checks THEN Panic ELSE Value(wrapped)

i64_abs(x, checks) == IF x = I64_MIN THEN Overflow(I64_MIN, checks) ELSE Value(Abs(x))
i32_abs(x, checks) == IF x = I32_MIN THEN Overflow(I32_MIN, checks) ELSE Value(Abs(x))

i64_sub(a, b, checks) ==
    LET d == a - b IN
    IF d > I64_MAX \/ d < I64_MIN THEN Overflow(as_i64(d), checks) ELSE Value(d)

i32_sub(a, b, checks) ==
    LET d == a - b IN
    IF d > I32_MAX \/ d < I32_MIN THEN Overflow(as_i32(d), checks) ELSE Value(d)

\* a / b: truncates toward zero; a zero divisor and MIN / -1 abort in every build
i64_div(a, b) ==
    IF b = 0 \/ (a = I64_MIN /\ b = -1) THEN Panic
    ELSE LET q == Abs(a) \div Abs(b) IN Value(IF (a < 0) # (b < 0) THEN -q ELSE q)

RECURSIVE Pow10Sat(_)
Pow10Sat(n) ==
    IF n = 0 THEN 1
    ELSE LET p == Pow10Sat(n - 1) IN IF p > I64_MAX \div 10 THEN I64_MAX ELSE 10 * p

\* 10_i64.saturating_pow(n); beyond 8 * I64Bytes digits the power has saturated
saturating_pow10(n) == IF n > 8 * I64Bytes THEN I64_MAX ELSE Pow10Sat(n)

\* faulty variant: saturates at the maximum whatever the sign of the product
saturating_mul_unsigned(a, b) ==
    IF a = 0 \/ b = 0 THEN 0
    ELSE IF Abs(a) > I64_MAX \div Abs(b) THEN I64_MAX ELSE a * b

saturating_mul(a, b) ==
    IF a = 0 \/ b = 0 THEN 0
    ELSE LET neg == (a < 0) # (b < 0)
             lim == IF neg THEN I64_MAX + 1 ELSE I64_MAX
         IN  IF Abs(a) > lim \div Abs(b)
             THEN (IF neg THEN I64_MIN ELSE I64_MAX)
             ELSE a * b

----------------------------------------------------------------------------
(* Oracle accounts and results *)

PRICE_OFFSET == 80
TIMESTAMP_OFFSET == 88
CONFIDENCE_OFFSET == 96
ORACLE_SIZE == 128
MAGIC == "PRCLORCL"

PYTH_PRICE_OFFSET == 80
PYTH_CONF_OFFSET == 88
PYTH_STATUS_OFFSET == 96
PYTH_EXPO_OFFSET == 112
PYTH_TIMESTAMP_OFFSET == 176
PYTH_MIN_LEN == 184
TARGET_SCALE == 6

PYTH_PROGRAM_ID == "pyth"

\* the bytes modelled for a field of `size` bytes
ModelBytes(size) == IF size = 8 THEN I64Bytes ELSE I32Bytes

\* data[off..off + size]: out of range aborts
Slice(acct, off, size) ==
    IF off + size <= acct.len
    THEN Value(SubSeq(acct.data[off], 1, ModelBytes(size)))
    ELSE Panic

Res(tag, err, price, confidence, timestamp, expo) ==
    [tag |-> tag, err |-> err, price |-> price, confidence |-> confidence,
     timestamp |-> timestamp, expo |-> expo]

OkUnit == Res("Ok", "", 0, 0, 0, 0)
OkPrice(price, confidence, timestamp, expo) == Res("Ok", "", price, confidence, timestamp, expo)
Err(e) == Res("Err", e, 0, 0, 0, 0)
Abort == Res("Panic", "", 0, 0, 0, 0)

OracleErrors == {"InvalidAccount", "InvalidFormat", "StalePrice", "LowConfidence",
                 "PriceUnavailable"}

----------------------------------------------------------------------------
(* PythAdapter (programs/router/src/oracle/pyth.rs) *)

\* faulty variant: a value that names no status is taken as Unknown
PythPriceStatus_from_u32_lenient(value) ==
    CASE value = 1 -> "Trading"
      [] value = 2 -> "Halted"
      [] value = 3 -> "Auction"
      [] OTHER -> "Unknown"

PythPriceStatus_from_u32(value) ==
    CASE value = 0 -> "Unknown"
      [] value = 1 -> "Trading"
      [] value = 2 -> "Halted"
      [] value = 3 -> "Auction"
      [] OTHER -> "None"

scale_price(price, expo, checks) ==
    IF expo >= 0
    THEN i64_div(saturating_mul(price, saturating_pow10(as_u32(expo))), 1000000)
    ELSE LET abs_expo == i32_abs(expo, checks) IN
         IF abs_expo.panic THEN Panic
         ELSE IF abs_expo.value > TARGET_SCALE
              THEN LET e == i32_sub(abs_expo.value, TARGET_SCALE, checks) IN
                   IF e.panic THEN Panic
                   ELSE i64_div(price, saturating_pow10(as_u32(e.value)))
              ELSE LET e == i32_sub(TARGET_SCALE, abs_expo.value, checks) IN
                   IF e.panic THEN Panic
                   ELSE Value(saturating_mul(price, saturating_pow10(as_u32(e.value))))

Pyth_current_timestamp == 0

Pyth_is_stale(timestamp, max_age_secs, checks) ==
    LET current_ts == Pyth_current_timestamp IN
    IF current_ts = 0 THEN Value(FALSE)
    ELSE LET age == i64_sub(current_ts, timestamp, checks) IN
         IF age.panic THEN Panic ELSE Value(age.value > max_age_secs)

Pyth_validate_account(acct) ==
    IF acct.owner # PYTH_PROGRAM_ID THEN Err("InvalidAccount") ELSE OkUnit

\* (conf_abs * 100) / price_abs on u128.  price_abs is price.abs() as u128: when
\* abs() has wrapped to the minimum the cast sign-extends it beyond any
\* conf_abs * 100, and the quotient is 0.
confidence_pct(conf_abs, price_abs) ==
    IF price_abs < 0 THEN 0 ELSE (conf_abs * 100) \div price_abs

Pyth_read_price(acct, adapter, checks) ==
    LET valid == Pyth_validate_account(acct) IN
    IF valid.tag # "Ok" THEN valid
    ELSE IF ~acct.borrowable THEN Err("InvalidAccount")
    ELSE IF acct.len < PYTH_MIN_LEN THEN Err("InvalidFormat")
    ELSE
    LET expo_bytes   == Slice(acct, PYTH_EXPO_OFFSET, 4)
        price_bytes  == Slice(acct, PYTH_PRICE_OFFSET, 8)
        conf_bytes   == Slice(acct, PYTH_CONF_OFFSET, 8)
        status_bytes == Slice(acct, PYTH_STATUS_OFFSET, 4)
        ts_bytes     == Slice(acct, PYTH_TIMESTAMP_OFFSET, 8)
    IN
    IF expo_bytes.panic \/ price_bytes.panic \/ conf_bytes.panic
            \/ status_bytes.panic \/ ts_bytes.panic
    THEN Abort
    ELSE
    LET expo       == i32_from_le_bytes(expo_bytes.value)
        price      == i64_from_le_bytes(price_bytes.value)
        conf       == u64_from_le_bytes(conf_bytes.value)
        status     == PythPriceStatus_from_u32(u32_from_le_bytes(status_bytes.value))
        timestamp  == i64_from_le_bytes(ts_bytes.value)
    IN
    IF status = "None" THEN Err("InvalidFormat")
    ELSE IF status # "Trading" THEN Err("PriceUnavailable")
    ELSE
    LET stale == Pyth_is_stale(timestamp, adapter.max_age_secs, checks) IN
    IF stale.panic THEN Abort
    ELSE IF stale.value THEN Err("StalePrice")
    ELSE
    LET price_abs == i64_abs(price, checks) IN
    IF price_abs.panic THEN Abort
    ELSE IF price_abs.value # 0
            /\ confidence_pct(conf, price_abs.value) > adapter.max_confidence_pct
    THEN Err("LowConfidence")
    ELSE
    LET scaled_price == scale_price(price, expo, checks)
        scaled_conf  == scale_price(as_i64(conf), expo, checks)
    IN
    IF scaled_price.panic \/ scaled_conf.panic THEN Abort
    ELSE OkPrice(scaled_price.value, scaled_conf.value, timestamp, expo)

----------------------------------------------------------------------------
(* CustomAdapter (programs/router/src/oracle/custom.rs) *)

Custom_current_timestamp == 0

Custom_is_stale(timestamp, max_age_secs, checks) ==
    LET age == i64_sub(Custom_current_timestamp, timestamp, checks) IN
    IF age.panic THEN Panic ELSE Value(age.value > max_age_secs)

\* faulty variant: the magic tag is not compared
Custom_validate_account_no_magic(acct) ==
    IF ~acct.borrowable THEN Err("InvalidAccount")
    ELSE IF acct.len # ORACLE_SIZE THEN Err("InvalidAccount")
    ELSE OkUnit

Custom_validate_account(acct) ==
    IF ~acct.borrowable THEN Err("InvalidAccount")
    ELSE IF acct.len # ORACLE_SIZE THEN Err("InvalidAccount")
    ELSE IF acct.magic # MAGIC THEN Err("InvalidAccount")
    ELSE OkUnit

Custom_read_price(acct, adapter, checks) ==
    LET valid == Custom_validate_account(acct) IN
    IF valid.tag # "Ok" THEN valid
    ELSE IF ~acct.borrowable THEN Err("InvalidAccount")
    ELSE IF acct.len # ORACLE_SIZE THEN Err("InvalidFormat")
    ELSE IF acct.magic # MAGIC THEN Err("InvalidFormat")
    ELSE
    LET price_bytes == Slice(acct, PRICE_OFFSET, 8)
        ts_bytes    == Slice(acct, TIMESTAMP_OFFSET, 8)
        conf_bytes  == Slice(acct, CONFIDENCE_OFFSET, 8)
    IN
    IF price_bytes.panic \/ ts_bytes.panic \/ conf_bytes.panic THEN Abort
    ELSE
    LET price      == i64_from_le_bytes(price_bytes.value)
        timestamp  == i64_from_le_bytes(ts_bytes.value)
        confidence == i64_from_le_bytes(conf_bytes.value)
        stale      == Custom_is_stale(timestamp, adapter.max_age_secs, checks)
    IN
    IF stale.panic THEN Abort
    ELSE IF stale.value THEN Err("StalePrice")
    ELSE OkPrice(price, confidence, timestamp, -6)

----------------------------------------------------------------------------
(* The accounts and adapter configurations explored *)

PriceSamples == {0, 1, -1, 7, 1234567, 5000000, -5000000, I64_MAX, I64_MIN}
ConfSamples == {0, 1, 100000, 150001, I64_MAX + 1, U64_MAX}
ExpoSamples == {I32_MIN, -13, -12, -8, -7, -6, -5, -1, 0, 1, 6, 7, 12, I32_MAX}
StatusSamples == {0, 1, 2, 3, 4, 255}
\* the cluster times explored: the epoch, and a later instant
ClockSamples == {0, 100}
TimestampSamples == {0, 1, -60, -61, 39, 40, 100, I64_MIN, I64_MAX}
\* scale_price is specified for exponents in -MaxExpo..MaxExpo
MaxExpo == 12
ScaleExponents == (-MaxExpo)..MaxExpo
LenSamples == {0, 7, 127, 128, 129, 183, 184, 185}
Owners == {PYTH_PROGRAM_ID, "oracle", "other"}
Magics == {MAGIC, "zeros", "PRCLORCX"}

AccountData(w80, w88, w96, w112, w176) ==
    (80 :> to_le_bytes(w80, I64Bytes)) @@ (88 :> to_le_bytes(w88, I64Bytes))
        @@ (96 :> to_le_bytes(w96, I64Bytes)) @@ (112 :> to_le_bytes(w112, I32Bytes))
        @@ (176 :> to_le_bytes(w176, I64Bytes))

PythAccount(owner, length, price, conf, status, expo, timestamp) ==
    [owner |-> owner, borrowable |-> TRUE, len |-> length, magic |-> "pyth-magic",
     data |-> AccountData(price, conf, status, expo, timestamp)]

CustomAccount(owner, borrowable, length, magic, price, timestamp, confidence) ==
    [owner |-> owner, borrowable |-> borrowable, len |-> length, magic |-> magic,
     data |-> AccountData(price, timestamp, confidence, 0, 0)]

PythNumericAccounts ==
    {PythAccount(PYTH_PROGRAM_ID, PYTH_MIN_LEN, p, c, 1, e, 0) :
        p \in PriceSamples, c \in ConfSamples, e \in ExpoSamples}

PythPolicyAccounts ==
    {PythAccount(PYTH_PROGRAM_ID, l, p, c, st, -8, t) :
        l \in {184, 185}, p \in {0, 5000000}, c \in {0, 100000, 150001},
        st \in StatusSamples, t \in TimestampSamples}

StructuralAccounts ==
    {CustomAccount(o, b, l, m, 5000000, 0, 5000) :
        o \in Owners, b \in BOOLEAN, l \in LenSamples, m \in Magics}

CustomNumericAccounts ==
    {CustomAccount("oracle", TRUE, ORACLE_SIZE, MAGIC, p, t, c) :
        p \in PriceSamples, t \in TimestampSamples, c \in {0, 5000, -1, I64_MIN}}

ScaleAccounts ==
    {PythAccount(PYTH_PROGRAM_ID, PYTH_MIN_LEN, p, 0, 1, e, 0) :
        p \in PriceSamples, e \in ScaleExponents}

Accounts == PythNumericAccounts \cup PythPolicyAccounts \cup StructuralAccounts
                \cup CustomNumericAccounts \cup ScaleAccounts

AdapterConfigs ==
    {[pyth |-> [max_confidence_pct |-> pct, max_age_secs |-> age],
      custom |-> [max_age_secs |-> age]] : pct \in {0, 2}, age \in {0, 60}}

\* PythAdapter::new() and CustomAdapter::new()
DefaultAdapters ==
    [pyth |-> [max_confidence_pct |-> 2, max_age_secs |-> 60],
     custom |-> [max_age_secs |-> 60]]

NoCall == [adapter |-> "", fn |-> "", result |-> OkUnit]

AdapterCall(adapter, fn, result) ==
    /\ pc = "idle"
    /\ call' = [adapter |-> adapter, fn |-> fn, result |-> result]
    /\ UNCHANGED <<queue, last_op, sched_vars, account, adapters, overflow_checks, now, crank>>

\* what a call of a helper returned: its value, or an abort
Returned(r) == IF r.panic THEN Abort ELSE Res("Ok", "", r.value, 0, 0, 0)

IsStaleResult(r) == IF r.panic THEN Abort ELSE Res(IF r.value THEN "true" ELSE "false", "", 0, 0, 0, 0)

\* the arguments the helpers are applied to: the fields of the account under read
ArgPrice == i64_from_le_bytes(account.data[PYTH_PRICE_OFFSET])
ArgExpo == i32_from_le_bytes(account.data[PYTH_EXPO_OFFSET])
ArgPythTimestamp == i64_from_le_bytes(account.data[PYTH_TIMESTAMP_OFFSET])
ArgCustomTimestamp == i64_from_le_bytes(account.data[TIMESTAMP_OFFSET])

PythScalePrice ==
    AdapterCall("Pyth", "scale_price",
                Returned(scale_price(ArgPrice, ArgExpo, overflow_checks)))

PythIsStale ==
    AdapterCall("Pyth", "is_stale",
                IsStaleResult(Pyth_is_stale(ArgPythTimestamp, adapters.pyth.max_age_secs,
                                            overflow_checks)))

CustomIsStale ==
    AdapterCall("Custom", "is_stale",
                IsStaleResult(Custom_is_stale(ArgCustomTimestamp, adapters.custom.max_age_secs,
                                              overflow_checks)))

PythValidateAccount ==
    AdapterCall("Pyth", "validate_account", Pyth_validate_account(account))

PythReadPrice ==
    AdapterCall("Pyth", "read_price", Pyth_read_price(account, adapters.pyth, overflow_checks))

CustomValidateAccount ==
    AdapterCall("Custom", "validate_account", Custom_validate_account(account))

CustomReadPrice ==
    AdapterCall("Custom", "read_price",
                Custom_read_price(account, adapters.custom, overflow_checks))

----------------------------------------------------------------------------
(* The oracle crank service (keeper/src/main.rs, OracleCommands::Crank):
   one initial update, then one update per tick of the interval timer.  The
   price source and the cluster are the environment: each fetch and each
   update either succeeds or fails. *)

MaxTicks == 3

\* the prices, in dollars, the price source can answer
FetchPrices == {1, 2, 9}

IoOutcomes == {"Ok", "Err"}

\* a float cast to i64 with `as`: saturates
f64_as_i64(x) == IF x > I64_MAX THEN I64_MAX ELSE IF x < I64_MIN THEN I64_MIN ELSE x

CrankInit ==
    [pc |-> "initial_fetch", price |-> 0, oracle_price |-> 0, oracle_confidence |-> 0,
     ticks |-> 0, failed |-> FALSE, log |-> ""]

\* update_oracle(.., new_price, None): on success the oracle account holds the
\* price and the default confidence (0.1% of it), both at 1e6 scale
update_oracle(c, outcome) ==
    IF outcome = "Ok"
    THEN [c EXCEPT !.oracle_price = f64_as_i64(c.price * 1000000),
                   !.oracle_confidence = f64_as_i64(c.price * 1000)]
    ELSE [c EXCEPT !.failed = TRUE]

\* `?` on the initial update: the error leaves run_oracle_command
initial_error(c) == [c EXCEPT !.pc = "exited"]

CrankUnchanged == UNCHANGED <<queue, last_op, sched_vars, oracle_vars>>

\* the initial fetch_price(..).await?
CrankInitialFetch ==
    /\ crank.pc = "initial_fetch"
    /\ \/ \E p \in FetchPrices :
            crank' = [crank EXCEPT !.pc = "initial_update", !.price = p]
       \/ crank' = initial_error([crank EXCEPT !.failed = TRUE])
    /\ CrankUnchanged

\* the initial update_oracle(..)?
CrankInitialUpdate ==
    /\ crank.pc = "initial_update"
    /\ \E outcome \in IoOutcomes :
        LET c == update_oracle(crank, outcome) IN
        crank' = IF outcome = "Ok" THEN [c EXCEPT !.pc = "sleep"]
                 ELSE initial_error(c)
    /\ CrankUnchanged

\* interval_timer.tick().await
CrankTick ==
    /\ crank.pc = "sleep"
    /\ crank.ticks < MaxTicks
    /\ crank' = [crank EXCEPT !.pc = "fetch", !.ticks = @ + 1]
    /\ CrankUnchanged

\* match fetch_price(..).await
CrankFetch ==
    /\ crank.pc = "fetch"
    /\ \/ \E p \in FetchPrices :
            crank' = [crank EXCEPT !.pc = "update", !.price = p]
       \/ crank' = [crank EXCEPT !.pc = "sleep", !.failed = TRUE,
                                 !.log = "Failed to fetch price"]
    /\ CrankUnchanged

\* if let Err(e) = update_oracle(..)
CrankUpdate ==
    /\ crank.pc = "update"
    /\ \E outcome \in IoOutcomes :
        LET c == update_oracle(crank, outcome) IN
        crank' = IF outcome = "Ok" THEN [c EXCEPT !.pc = "sleep"]
                 ELSE [c EXCEPT !.pc = "sleep", !.log = "Failed to update oracle"]
    /\ CrankUnchanged

----------------------------------------------------------------------------
(* Specifications *)

Configs == [liquidation_threshold : Thresholds, preliq_buffer : Buffers,
            max_liquidations_per_batch : BatchSizes]

InitCommon ==
    /\ queue = HealthQueue_new
    /\ last_op = NoOp
    /\ config \in Configs
    /\ ledger = {}
    /\ pc = "idle"
    /\ liquidatable = <<>>
    /\ batch_size = 0
    /\ idx = 0
    /\ dispatched = <<>>
    /\ tick_queue = <<>>
    /\ crank = CrankInit

NoOracle ==
    /\ account = CustomAccount("oracle", TRUE, ORACLE_SIZE, MAGIC, 5000000, 0, 5000)
    /\ adapters = DefaultAdapters
    /\ overflow_checks = FALSE
    /\ call = NoCall
    /\ now = 0

Init == InitCommon /\ NoOracle /\ executor = "stub"

InitSubmitter == InitCommon /\ NoOracle /\ executor = "submitter"

FixedConfig == [liquidation_threshold |-> 0, preliq_buffer |-> 1,
                max_liquidations_per_batch |-> 1]

InitQueue ==
    /\ InitCommon
    /\ NoOracle
    /\ executor = "stub"
    /\ config = FixedConfig

InitOracle ==
    /\ InitCommon
    /\ executor = "stub"
    /\ config = FixedConfig
    /\ account \in Accounts
    /\ adapters \in AdapterConfigs
    /\ overflow_checks \in BOOLEAN
    /\ call = NoCall
    /\ now \in ClockSamples

\* the queues the risk engine can have built: for some first users, in turn, one
\* push each
RECURSIVE PushedQueues(_)
PushedQueues(n) ==
    IF n = 0 THEN {HealthQueue_new}
    ELSE {push_or_update(q, UserHealth(n, h)) : q \in PushedQueues(n - 1), h \in Healths}

DrainQueues == UNION {PushedQueues(n) : n \in 0..NumUsers}

\* the keeper started on a filled queue that receives no further push
InitDrain ==
    /\ queue \in DrainQueues
    /\ last_op = NoOp
    /\ config \in Configs
    /\ executor \in {"stub", "submitter"}
    /\ ledger = {}
    /\ pc = "idle"
    /\ liquidatable = <<>>
    /\ batch_size = 0
    /\ idx = 0
    /\ dispatched = <<>>
    /\ tick_queue = <<>>
    /\ crank = CrankInit
    /\ NoOracle

InitCrank ==
    /\ InitCommon
    /\ NoOracle
    /\ executor = "stub"
    /\ config = FixedConfig

Next ==
    \/ \E u \in Users, h \in Healths : update_health_queue(u, h)
    \/ process_liquidations
    \/ liquidate_entry
    \/ process_liquidations_return
    \/ log_queue_status

NextQueue ==
    \/ \E u \in Users, h \in Healths : QueuePush(u, h)
    \/ \E u \in Users : QueueRemove(u)

NextOracle ==
    \/ PythValidateAccount
    \/ PythReadPrice
    \/ CustomValidateAccount
    \/ CustomReadPrice
    \/ PythScalePrice
    \/ PythIsStale
    \/ CustomIsStale

NextDrain ==
    \/ process_liquidations
    \/ liquidate_entry
    \/ process_liquidations_return
    \/ log_queue_status

\* the interval timer fires again and again, and a running tick is carried through
TickFairness ==
    /\ WF_vars(process_liquidations)
    /\ WF_vars(liquidate_entry)
    /\ WF_vars(process_liquidations_return)
    /\ WF_vars(log_queue_status)

NextCrank ==
    \/ CrankInitialFetch
    \/ CrankInitialUpdate
    \/ CrankTick
    \/ CrankFetch
    \/ CrankUpdate

\* the keeper as written
Spec == Init /\ [][Next]_vars

\* the keeper with execute_liquidation bound to a Transaction Submitter that can fail
SpecSubmitter == InitSubmitter /\ [][Next]_vars

\* the HealthQueue under arbitrary push_or_update / remove sequences
SpecQueue == InitQueue /\ [][NextQueue]_vars

\* the adapters applied to any account, under either build profile
SpecOracle == InitOracle /\ [][NextOracle]_vars

\* the keeper loop on a queue without further pushes, under a fair timer
SpecDrain == InitDrain /\ [][NextDrain]_vars /\ TickFairness

\* the oracle crank service, with a price source and a cluster that may fail
SpecCrank == InitCrank /\ [][NextCrank]_vars

----------------------------------------------------------------------------
(* Helpers of the properties *)

RecordOf(q, user) == CHOOSE r \in Range(q) : r.user = user

Present(q, user) == \E r \in Range(q) : r.user = user

Ascending(s) == \A i, j \in 1..Len(s) : i < j => s[i].health <= s[j].health

Entry(d) == [user |-> d.user, portfolio |-> d.portfolio, health |-> d.health]

Entries(ds) == [i \in 1..Len(ds) |-> Entry(ds[i])]

InTick == pc \in {"loop", "returned"}

QueryThresholds == Healths \cup Thresholds \cup {6}

----------------------------------------------------------------------------
(* Properties of the liquidation scheduler *)

\* C1: a record leaves the queue during a tick only if the ledger has accepted a
\* liquidation of its portfolio, and a user whose dispatch failed still has its
\* record, unchanged, in the queue.
C1_RemovedOnlyAfterLedgerAccepted ==
    InTick =>
        /\ \A r \in Range(tick_queue) :
                r \notin Range(queue) => r.portfolio \in ledger
        /\ \A i \in 1..Len(dispatched) :
                dispatched[i].result = "Err" =>
                    /\ Present(queue, dispatched[i].user)
                    /\ RecordOf(queue, dispatched[i].user) = RecordOf(tick_queue, dispatched[i].user)

\* C2: the entries dispatched in a tick are the first min(max_batch_size, count)
\* entries of get_liquidatable(liquidation_threshold), in that order: never more
\* than max_batch_size, ascending by health, and no dispatched entry is healthier
\* than a liquidatable entry left out of the batch.
C2_BatchIsMostAtRiskPrefix ==
    InTick =>
        LET liq == get_liquidatable(tick_queue, config.liquidation_threshold)
            n   == Min(config.max_liquidations_per_batch, Len(liq))
        IN  /\ Len(dispatched) <= n
            /\ Entries(dispatched) = SubSeq(liq, 1, Len(dispatched))
            /\ Ascending(dispatched)
            /\ pc = "returned" =>
                /\ Len(dispatched) = n
                /\ \A i \in 1..Len(dispatched), j \in (n + 1)..Len(liq) :
                        dispatched[i].health <= liq[j].health

C2_Witness ==
    /\ pc = "returned"
    /\ Len(dispatched) = 2
    /\ Len(liquidatable) = 3
    /\ dispatched[1].health < dispatched[2].health
    /\ dispatched[2].health < liquidatable[3].health

\* C3: whatever the outcomes of the earlier dispatches of a tick, the i-th iteration
\* dispatches the i-th entry of the batch, once, and process_liquidations returns
\* only when every entry of the batch has been dispatched; in the loop a next step
\* is always possible.
C3_FailureNeverBlocksBatch ==
    InTick =>
        LET liq   == get_liquidatable(tick_queue, config.liquidation_threshold)
            batch == SubSeq(liq, 1, Min(config.max_liquidations_per_batch, Len(liq)))
        IN  /\ Len(dispatched) = idx
            /\ idx <= Len(batch)
            /\ \A i \in 1..Len(dispatched) : dispatched[i].user = batch[i].user
            /\ \A i, j \in 1..Len(dispatched) :
                    dispatched[i].user = dispatched[j].user => i = j
            /\ pc = "returned" => Len(dispatched) = Len(batch)
            /\ pc = "loop" => ENABLED (liquidate_entry \/ process_liquidations_return)

C3_Witness ==
    /\ pc = "returned"
    /\ Len(dispatched) = 2
    /\ dispatched[1].result = "Err"
    /\ dispatched[2].result = "Ok"

\* C7: a dispatched entry with health <= 0 is a hard liquidation, one with
\* 0 < health < preliq_buffer a pre-liquidation.
C7_ClassifiedByHealth ==
    \A i \in 1..Len(dispatched) :
        LET d == dispatched[i] IN
        /\ d.health <= 0 => ~d.is_preliq
        /\ (0 < d.health /\ d.health < config.preliq_buffer) => d.is_preliq

C7_Witness ==
    /\ Len(dispatched) = 2
    /\ dispatched[1].health = 0 /\ ~dispatched[1].is_preliq
    /\ dispatched[2].health = 1 /\ dispatched[2].is_preliq

\* C8: no entry with health >= preliq_buffer is selected into a batch or dispatched.
C8_HealthyNeverSelected ==
    /\ \A r \in Range(Batch(liquidatable, batch_size)) : r.health < config.preliq_buffer
    /\ \A i \in 1..Len(dispatched) : dispatched[i].health < config.preliq_buffer

\* C21: a tick only removes records: the queue during and after a tick is the
\* queue at the start of the tick less some records of the selected batch, in the
\* same order and with the same fields; with nothing below liquidation_threshold
\* nothing is dispatched and the queue is unchanged; and the entries dispatched
\* are those of the snapshot taken at the start of the tick, whatever has been
\* removed since.
C21_TickOnlyRemoves ==
    InTick =>
        LET liq   == get_liquidatable(tick_queue, config.liquidation_threshold)
            batch == SubSeq(liq, 1, Min(config.max_liquidations_per_batch, Len(liq)))
        IN  /\ queue = SelectSeq(tick_queue, LAMBDA r : r \in Range(queue))
            /\ Range(queue) \subseteq Range(tick_queue)
            /\ \A r \in Range(tick_queue) : r \notin Range(batch) => r \in Range(queue)
            /\ liq = <<>> => (dispatched = <<>> /\ queue = tick_queue /\ pc = "returned")
            /\ liquidatable = liq
            /\ \A i \in 1..Len(dispatched) : Entry(dispatched[i]) = liq[i]

\* a tick that removed the second entry of its batch, kept the first (its
\* dispatch failed) and left alone a record outside the batch
C21_Witness ==
    /\ pc = "returned"
    /\ Len(tick_queue) = 3
    /\ Len(dispatched) = 2
    /\ dispatched[1].result = "Err"
    /\ dispatched[2].result = "Ok"
    /\ queue = <<tick_queue[1], tick_queue[3]>>

Liquidatable(u) ==
    \E r \in Range(queue) : r.user = u /\ r.health < config.liquidation_threshold

Dispatched(u) == \E i \in 1..Len(dispatched) : dispatched[i].user = u

----------------------------------------------------------------------------
(* Properties of the HealthQueue *)

\* C4: for every threshold get_liquidatable returns exactly the present records
\* with health < threshold, each once, ascending by health; pushing -10, 5, -3
\* and asking for threshold 0 gives the records of -10 and -3 in that order.
C4_LiquidatableExactSortedSubset ==
    /\ \A t \in QueryThresholds :
        LET out == get_liquidatable(queue, t) IN
        /\ Range(out) = {r \in Range(queue) : r.health < t}
        /\ Cardinality(Range(out)) = Len(out)
        /\ Ascending(out)
    /\ get_liquidatable(
            push_or_update(push_or_update(push_or_update(HealthQueue_new,
                UserHealth(1, -10)), UserHealth(2, 5)), UserHealth(3, -3)), 0)
         = <<UserHealth(1, -10), UserHealth(3, -3)>>

C4_Witness ==
    /\ Len(queue) = 3
    /\ last_op.op = "push" /\ last_op.health = -3
    /\ {r.health : r \in Range(queue)} = {-10, 5, -3}
    /\ [i \in 1..2 |-> get_liquidatable(queue, 0)[i].health] = <<-10, -3>>
    /\ Len(get_liquidatable(queue, 0)) = 2

\* C5: peek returns none exactly when the queue is empty, and otherwise a present
\* record whose health is the minimum of the healths present.
C5_PeekIsMinimum ==
    /\ peek(queue) = None <=> is_empty(queue)
    /\ ~is_empty(queue) =>
        /\ peek(queue) \in Range(queue)
        /\ \A r \in Range(queue) : peek(queue).health <= r.health

\* an update has raised the health of the former minimum above another record's
C5_Witness ==
    /\ last_op.op = "push"
    /\ Len(last_op.before) >= 2
    /\ peek(last_op.before).user = last_op.user
    /\ peek(queue).user # last_op.user
    /\ Present(queue, last_op.user)

\* C6: the queue holds at most one record per user and len() counts the users
\* present; a push for a user already present replaces that user's record.
C6_OneRecordPerUser ==
    /\ \A i, j \in 1..Len(queue) : queue[i].user = queue[j].user => i = j
    /\ len(queue) = Cardinality({r.user : r \in Range(queue)})
    /\ last_op.op = "push" =>
        /\ {r \in Range(queue) : r.user = last_op.user} = {UserHealth(last_op.user, last_op.health)}
        /\ {r \in Range(queue) : r.user # last_op.user}
             = {r \in Range(last_op.before) : r.user # last_op.user}
        /\ len(queue) = len(last_op.before)
                        + (IF Present(last_op.before, last_op.user) THEN 0 ELSE 1)
    /\ last_op.op = "remove" =>
        Range(queue) = {r \in Range(last_op.before) : r.user # last_op.user}

C6_Witness ==
    /\ last_op.op = "push"
    /\ Present(last_op.before, last_op.user)
    /\ RecordOf(last_op.before, last_op.user).health # last_op.health
    /\ len(queue) = len(last_op.before)
    /\ len(queue) = 3

----------------------------------------------------------------------------
(* Properties of the oracle adapters *)

\* the raw fields of the account under read
RawI64(off) == as_i64(LeValue(account.data[off]))
RawU64(off) == LeValue(account.data[off])
RawStatus == LeValue(SubSeq(account.data[PYTH_STATUS_OFFSET], 1, I32Bytes))
RawExpo == as_i32(LeValue(account.data[PYTH_EXPO_OFFSET]))

WrongStructure(adapter) ==
    IF adapter = "Pyth"
    THEN account.len < PYTH_MIN_LEN
    ELSE account.len # ORACLE_SIZE \/ account.magic # MAGIC

\* C9: on an account of the wrong length or, for Custom, the wrong magic tag,
\* validate_account and read_price of either adapter return InvalidFormat or
\* InvalidAccount, never Ok.
C9_WrongStructureRejected ==
    (call.fn \in {"validate_account", "read_price"} /\ WrongStructure(call.adapter)) =>
        /\ call.result.tag = "Err"
        /\ call.result.err \in {"InvalidFormat", "InvalidAccount"}

\* the documented rescaling, on the mathematical |expo|
DocumentedScale(price, expo) ==
    IF expo >= 0
    THEN i64_div(saturating_mul(price, saturating_pow10(expo)), 1000000).value
    ELSE IF Abs(expo) > 6
         THEN i64_div(price, saturating_pow10(Abs(expo) - 6)).value
         ELSE saturating_mul(price, saturating_pow10(6 - Abs(expo)))

PythAcceptable ==
    /\ account.owner = PYTH_PROGRAM_ID
    /\ account.borrowable
    /\ account.len >= PYTH_MIN_LEN
    /\ RawStatus = 1
    /\ 0 - RawI64(PYTH_TIMESTAMP_OFFSET) <= adapters.pyth.max_age_secs
    /\ \/ RawI64(PYTH_PRICE_OFFSET) = 0
       \/ (RawU64(PYTH_CONF_OFFSET) * 100) \div Abs(RawI64(PYTH_PRICE_OFFSET))
                <= adapters.pyth.max_confidence_pct

\* C10: on a Pyth-owned, Trading, fresh record whose confidence ratio is within the
\* threshold, read_price succeeds with the documented rescaling of the raw price.
C10_PythPriceIsDocumentedScale ==
    (call.adapter = "Pyth" /\ call.fn = "read_price" /\ PythAcceptable) =>
        /\ call.result.tag = "Ok"
        /\ call.result.price = DocumentedScale(RawI64(PYTH_PRICE_OFFSET), RawExpo)

PythRead == call.adapter = "Pyth" /\ call.fn = "read_price"
CustomRead == call.adapter = "Custom" /\ call.fn = "read_price"

PythStructurallyValid ==
    /\ account.owner = PYTH_PROGRAM_ID
    /\ account.borrowable
    /\ account.len >= PYTH_MIN_LEN

CustomStructurallyValid ==
    /\ account.borrowable
    /\ account.len = ORACLE_SIZE
    /\ account.magic = MAGIC

\* now - timestamp > max_age_secs, on the integers
OlderThan(timestamp, max_age_secs) == now - timestamp > max_age_secs

\* floor(confidence * 100 / |price|) > max_confidence_pct, on the true |price|
RatioAbove(conf, price, pct) == Abs(price) > 0 /\ (conf * 100) \div Abs(price) > pct

\* C11 as stated: on a structurally valid Pyth record whose status is anything
\* other than Trading, read_price returns PriceUnavailable.
C11_NotTradingIsUnavailable ==
    (PythRead /\ PythStructurallyValid /\ RawStatus # 1) =>
        call.result = Err("PriceUnavailable")

\* C11: on a structurally valid Pyth record whose status is Unknown, Halted or
\* Auction, read_price returns PriceUnavailable whatever the timestamp and the
\* confidence; a status value that names no status is rejected with InvalidFormat.
C11_KnownNotTradingIsUnavailable ==
    (PythRead /\ PythStructurallyValid /\ RawStatus # 1) =>
        call.result = IF RawStatus \in {0, 2, 3} THEN Err("PriceUnavailable")
                      ELSE Err("InvalidFormat")

\* a Halted record that is also too old and too uncertain
C11_Witness ==
    /\ PythRead /\ PythStructurallyValid
    /\ RawStatus = 2
    /\ OlderThan(RawI64(PYTH_TIMESTAMP_OFFSET), adapters.pyth.max_age_secs)
    /\ RatioAbove(RawU64(PYTH_CONF_OFFSET), RawI64(PYTH_PRICE_OFFSET),
                  adapters.pyth.max_confidence_pct)
    /\ call.result = Err("PriceUnavailable")

\* C12: on a Trading, non-stale Pyth record read_price returns LowConfidence
\* exactly when |price| > 0 and floor(confidence * 100 / |price|) exceeds
\* max_confidence_pct, with |price| the true absolute value, and the computation
\* does not abort, for every raw price including 0 and the minimum.  (Exponents
\* at which scale_price itself aborts are left to C16.)
C12_LowConfidenceExactlyAboveThreshold ==
    (/\ PythRead /\ PythStructurallyValid
     /\ RawStatus = 1
     /\ ~OlderThan(RawI64(PYTH_TIMESTAMP_OFFSET), adapters.pyth.max_age_secs)
     /\ RawExpo # I32_MIN) =>
        /\ call.result.tag # "Panic"
        /\ call.result = Err("LowConfidence")
              <=> RatioAbove(RawU64(PYTH_CONF_OFFSET), RawI64(PYTH_PRICE_OFFSET),
                             adapters.pyth.max_confidence_pct)

\* C13: for both adapters is_stale(timestamp, max_age_secs) is true exactly when
\* now - timestamp > max_age_secs, and read_price on a structurally valid (for
\* Pyth, Trading) record returns StalePrice exactly when that holds of the
\* record's timestamp and the adapter's max_age_secs.
C13_StaleExactlyWhenOlderThanMaxAge ==
    /\ (call.adapter = "Pyth" /\ call.fn = "is_stale") =>
            call.result.tag =
                (IF OlderThan(RawI64(PYTH_TIMESTAMP_OFFSET), adapters.pyth.max_age_secs)
                 THEN "true" ELSE "false")
    /\ (call.adapter = "Custom" /\ call.fn = "is_stale") =>
            call.result.tag =
                (IF OlderThan(RawI64(TIMESTAMP_OFFSET), adapters.custom.max_age_secs)
                 THEN "true" ELSE "false")
    /\ (PythRead /\ PythStructurallyValid /\ RawStatus = 1) =>
            (call.result = Err("StalePrice")
                <=> OlderThan(RawI64(PYTH_TIMESTAMP_OFFSET), adapters.pyth.max_age_secs))
    /\ (CustomRead /\ CustomStructurallyValid) =>
            (call.result = Err("StalePrice")
                <=> OlderThan(RawI64(TIMESTAMP_OFFSET), adapters.custom.max_age_secs))

\* C14: while the adapter has no clock (current_timestamp() is 0), is_stale does
\* not answer "not stale" and read_price does not return a price.
C14_NoClockNeverPassesAsFresh ==
    (call.adapter = "Pyth" /\ Pyth_current_timestamp = 0) =>
        /\ call.fn = "is_stale" => call.result.tag # "false"
        /\ call.fn = "read_price" => call.result.tag # "Ok"

\* C15: on a 128-byte Custom account with the magic tag and a non-stale timestamp,
\* read_price returns the little-endian i64 values at offsets 80 (price),
\* 96 (confidence) and 88 (timestamp) unchanged, with expo = -6.
C15_CustomReadsRawFields ==
    (/\ CustomRead /\ CustomStructurallyValid
     /\ ~OlderThan(RawI64(TIMESTAMP_OFFSET), adapters.custom.max_age_secs)) =>
        call.result = OkPrice(RawI64(PRICE_OFFSET), RawI64(CONFIDENCE_OFFSET),
                              RawI64(TIMESTAMP_OFFSET), -6)

\* the end-to-end scenario at the modelled width: price 5_000_000, confidence
\* 5_000, timestamp = now
C15_Witness ==
    /\ CustomRead /\ CustomStructurallyValid
    /\ now = 100
    /\ account.data[PRICE_OFFSET] = to_le_bytes(5000000, I64Bytes)
    /\ account.data[CONFIDENCE_OFFSET] = to_le_bytes(5000, I64Bytes)
    /\ account.data[TIMESTAMP_OFFSET] = to_le_bytes(now, I64Bytes)
    /\ call.result = OkPrice(5000000, 5000, now, -6)

\* C16: for every owner and every buffer read_price of either adapter returns an
\* OraclePrice or one of the five OracleError variants; it never aborts.
C16_ReadPriceNeverAborts ==
    call.fn = "read_price" =>
        /\ call.result.tag \in {"Ok", "Err"}
        /\ call.result.tag = "Err" => call.result.err \in OracleErrors

\* C18: on a Custom account whose size is not 128 bytes or whose magic tag does
\* not match, read_price returns InvalidFormat.
C18_CustomWrongStructureIsInvalidFormat ==
    (CustomRead /\ account.borrowable /\ WrongStructure("Custom")) =>
        call.result = Err("InvalidFormat")

\* C19: on a Custom account whose magic tag is not "PRCLORCL" (all zero bytes
\* included) validate_account returns InvalidAccount.
C19_WrongMagicIsInvalidAccount ==
    (call.adapter = "Custom" /\ call.fn = "validate_account" /\ account.magic # MAGIC) =>
        call.result = Err("InvalidAccount")

\* a 128-byte account whose magic tag is all zero bytes
C19_Witness ==
    /\ call.adapter = "Custom" /\ call.fn = "validate_account"
    /\ account.borrowable
    /\ account.len = ORACLE_SIZE
    /\ account.magic = "zeros"
    /\ call.result = Err("InvalidAccount")

\* C20: for every exponent in [-12, 12] and every price, scale_price returns, and
\* a positive price never rescales to a negative result nor a negative price to a
\* positive one; the same holds of the price read_price returns.
C20_ScalePreservesSign ==
    ((call.fn = "scale_price" \/ (PythRead /\ call.result.tag = "Ok"))
            /\ RawExpo \in ScaleExponents) =>
        /\ call.result.tag = "Ok"
        /\ RawI64(PYTH_PRICE_OFFSET) > 0 => call.result.price >= 0
        /\ RawI64(PYTH_PRICE_OFFSET) < 0 => call.result.price <= 0

\* a negative price whose rescaled value saturates at the minimum
C20_Witness ==
    /\ call.fn = "scale_price"
    /\ RawI64(PYTH_PRICE_OFFSET) = -5000000
    /\ RawExpo = -1
    /\ call.result = Res("Ok", "", I64_MIN, 0, 0, 0)

\* C23: every OraclePrice that PythAdapter.read_price returns has
\* confidence >= 0, whatever the raw unsigned confidence, the raw price and the
\* exponent.
C23_PythConfidenceNonNegative ==
    (PythRead /\ call.result.tag = "Ok") => call.result.confidence >= 0

----------------------------------------------------------------------------
(* Properties of the oracle crank service *)

\* C17: no failure of a price fetch or of an oracle update, the initial update
\* included, ends the crank service, and every failure is logged.
C17_FailureNeverTerminates ==
    /\ crank.pc # "exited"
    /\ crank.failed => crank.log # ""

====
